---- MODULE Spec2Model ----
(***************************************************************************)
(* Community Digital Voting System (src/app.py): the proposal / vote       *)
(* lifecycle over the SQLite store.  Each request runs on a worker thread  *)
(* with its own connection; every SQL statement (with the commit that      *)
(* follows it) is one atomic step, and the steps of concurrent requests    *)
(* interleave.                                                             *)
(***************************************************************************)
EXTENDS Integers, Sequences, FiniteSets, TLC

\* ---------------------------------------------------------------- bounds
MaxTime == 1
MaxProposals == 2
MaxVoteId == 2
\* requests are served concurrently while at most this many proposals exist,
\* and one at a time after that
MaxConcProposals == 1

\* the worker threads of the pool that serves the requests
Threads == {1, 2}
Voters == {"alice", "bob"}
VoterInputs == Voters \cup {""}
Choices == {"yes", "no", "abstain"}
ChoiceInputs == Choices \cup {"maybe"}
Titles == {"", "T"}
Tokens == {"none", "wrong", "secret-admin-token"}
ADMIN_TOKEN == "secret-admin-token"
DefaultDaysOpen == 2
\* days_open as the request carries it: omitted, null, or an integer
DaysOpenInputs ==
    {[kind |-> "omitted", v |-> 0], [kind |-> "null", v |-> 0]}
        \cup {[kind |-> "int", v |-> i] : i \in {-1, 0}}

\* ---------------------------------------------------------------- state
VARIABLES
    proposals,     \* table proposals: sequence, row id = index
    votes,         \* table votes: set of rows
    seqVotes,      \* sqlite_sequence of votes (AUTOINCREMENT): last id issued
    now,           \* the clock, datetime.utcnow()
    th,            \* per worker thread: the request it serves and its locals
    reply          \* the response the last step sent, if it sent one

vars == <<proposals, votes, seqVotes, now, th, reply>>

\* ---------------------------------------------------------------- responses
NoRes == [code |-> 0, detail |-> ""]
Ok200 == [code |-> 200, detail |-> ""]
Created201 == [code |-> 201, detail |-> ""]
NoContent204 == [code |-> 204, detail |-> ""]
NotFoundProposal == [code |-> 404, detail |-> "Proposal not found"]
NotFoundVote == [code |-> 404, detail |-> "Vote not found"]
NotActiveVote == [code |-> 400, detail |-> "Proposal is not active; voting is not allowed."]
\* the duplicate-vote error sent with the text of the not-active error
AlreadyVoted_AsNotActive == NotActiveVote
AlreadyVoted == [code |-> 400, detail |-> "Voter has already voted. Revoke first to change vote."]
NotActiveRevoke == [code |-> 400, detail |-> "Cannot revoke vote: proposal not active."]
Forbidden == [code |-> 403, detail |-> "Admin token required"]
ValidationError == [code |-> 422, detail |-> "validation"]
ServerError == [code |-> 500, detail |-> "Internal Server Error"]

Idle ==
    [pc |-> "idle", op |-> "none", pid |-> 0, voter |-> "", choice |-> "",
     vid |-> 0, row |-> "", rnow |-> 0, tal |-> <<0, 0, 0>>,
     ids |-> <<>>, results |-> <<>>, tok |-> "", voted_at |-> 0, res |-> NoRes]

Free(t) == th[t].pc = "idle"

\* a request is handed to the first free worker
Dispatch(t) ==
    /\ Free(t)
    /\ \A u \in Threads : u < t => ~Free(u)
    /\ t > 1 => Len(proposals) <= MaxConcProposals

\* the handler goes on: thread t now holds the locals r
Step(t, r) ==
    /\ th' = [th EXCEPT ![t] = r]
    /\ reply' = Idle

\* the handler returns or raises: the response is sent, the worker is free
Return(t, r, res) ==
    /\ th' = [th EXCEPT ![t] = Idle]
    /\ reply' = [r EXCEPT !.pc = "done", !.res = res, !.ids = <<>>]

Init ==
    /\ proposals = <<>>
    /\ votes = {}
    /\ seqVotes = 0
    /\ now = 0
    /\ th = [t \in Threads |-> Idle]
    /\ reply = Idle

Tick ==
    /\ now < MaxTime
    /\ now' = now + 1
    /\ reply' = Idle
    /\ UNCHANGED <<proposals, votes, seqVotes, th>>

\* ---------------------------------------------------------------- helpers
\* the expiry test, one unit late
IsExpired_Late(status, deadline, t) == status = "active" /\ t > deadline + 1

\* the expiry test, never true
IsExpired_Never(status, deadline, t) == FALSE

\* get_proposal_or_404, the expiry test
IsExpired(status, deadline, t) == status = "active" /\ t > deadline

\* the SELECT without the 404: a missing row is taken for an active proposal
ResolveSelect_No404(t, r) ==
    IF r.pid \in DOMAIN proposals
    THEN Step(t, [r EXCEPT !.row = proposals[r.pid].status, !.pc = "gp_check"])
    ELSE Step(t, [r EXCEPT !.row = "active",
                           !.pc = IF r.op = "cast" THEN "cast_select" ELSE "tally"])

\* get_proposal_or_404, SELECT * FROM proposals WHERE id=?  (404 if no row)
ResolveSelect(t, r) ==
    IF r.pid \in DOMAIN proposals
    THEN Step(t, [r EXCEPT !.row = proposals[r.pid].status, !.pc = "gp_check"])
    ELSE Return(t, r, NotFoundProposal)

\* where each handler continues once get_proposal_or_404 has returned
AfterResolve(op) ==
    CASE op = "cast" -> "cast_select"
      [] op = "revoke" -> "revoke_delete"
      [] OTHER -> "tally"

GpSelect(t) ==
    /\ th[t].pc = "gp_select"
    /\ ResolveSelect(t, th[t])
    /\ UNCHANGED <<proposals, votes, seqVotes, now>>

\* get_proposal_or_404: read the clock; UPDATE ... SET status='expired' and commit
\* (rnow, the clock value read, is kept by the handlers that report the status
\* and by submit_vote)
GpCheck(t) ==
    LET r == th[t]
        rn == IF AfterResolve(r.op) = "revoke_delete" THEN 0 ELSE now
    IN
    /\ r.pc = "gp_check"
    /\ IF IsExpired(r.row, proposals[r.pid].deadline, now)
       THEN /\ proposals' = [proposals EXCEPT ![r.pid].status = "expired"]
            /\ Step(t, [r EXCEPT !.rnow = rn, !.pc = "gp_reselect"])
       ELSE /\ Step(t, [r EXCEPT !.rnow = rn, !.pc = AfterResolve(r.op)])
            /\ UNCHANGED proposals
    /\ UNCHANGED <<votes, seqVotes, now>>

\* get_proposal_or_404: the second SELECT, after the expiry UPDATE
GpReselect(t) ==
    LET r == th[t] IN
    /\ r.pc = "gp_reselect"
    /\ Step(t, [r EXCEPT !.row = proposals[r.pid].status, !.pc = AfterResolve(r.op)])
    /\ UNCHANGED <<proposals, votes, seqVotes, now>>

\* SELECT vote, COUNT(*) ... WHERE proposal_id=? GROUP BY vote: one row per
\* choice that has votes
GroupByVote(vs, pid) ==
    {[vote |-> k, c |-> Cardinality({v \in vs : v.proposal_id = pid /\ v.vote = k})] :
        k \in {v.vote : v \in {w \in vs : w.proposal_id = pid}}}

\* the tally without its WHERE proposal_id=?
tally_votes_AllProposals(vs, pid) ==
    LET n(k) == Cardinality({v \in vs : v.vote = k})
    IN <<n("yes"), n("no"), n("abstain")>>

tally_votes(vs, pid) ==
    LET rows == GroupByVote(vs, pid)
        counts == [k \in Choices |->
                      IF \E g \in rows : g.vote = k
                      THEN (CHOOSE g \in rows : g.vote = k).c
                      ELSE 0]
    IN <<counts["yes"], counts["no"], counts["abstain"]>>

\* tally_votes, then the ProposalOut built from the resolved row and the tally
Tally(t) ==
    LET r == th[t]
        tl == tally_votes(votes, r.pid)
        out == [id |-> r.pid, status |-> r.row, rnow |-> r.rnow, tal |-> tl]
    IN
    /\ r.pc = "tally"
    /\ IF r.op = "list"
       THEN IF r.ids = <<>>
            THEN Return(t, [r EXCEPT !.results = Append(@, out), !.tal = tl], Ok200)
            ELSE Step(t, [r EXCEPT !.results = Append(@, out), !.rnow = 0,
                                   !.pid = Head(r.ids), !.ids = Tail(r.ids),
                                   !.pc = "gp_select"])
       ELSE Return(t, [r EXCEPT !.tal = tl],
                   IF r.op = "create" THEN Created201 ELSE Ok200)
    /\ UNCHANGED <<proposals, votes, seqVotes, now>>

\* ---------------------------------------------------------------- create_proposal
\* ProposalCreate: constr(min_length=1) on title and description; days_open
\* is Optional[int] = 2 with no other constraint
ValidProposalCreate(title, description, d) == title # "" /\ description # ""

DaysOpen(d) == IF d.kind = "omitted" THEN DefaultDaysOpen ELSE d.v

\* created_at = utcnow(); INSERT INTO proposals ...; commit
create_proposal(t) ==
    /\ Dispatch(t)
    /\ Len(proposals) < MaxProposals
    /\ Len(proposals) >= MaxConcProposals => \A u \in Threads : Free(u)
    /\ \E title \in Titles, description \in Titles, d \in DaysOpenInputs :
        LET r == [Idle EXCEPT !.op = "create"] IN
        IF ~ValidProposalCreate(title, description, d)
        THEN /\ Return(t, r, ValidationError)
             /\ UNCHANGED proposals
        ELSE IF d.kind = "null"
        THEN \* timedelta(days=None) raises TypeError before the INSERT
             /\ Return(t, r, ServerError)
             /\ UNCHANGED proposals
        ELSE /\ proposals' = Append(proposals,
                    [title |-> title, description |-> description,
                     created_at |-> now, deadline |-> now + DaysOpen(d),
                     status |-> "active"])
             /\ Step(t, [r EXCEPT !.pid = Len(proposals) + 1, !.pc = "gp_select"])
    /\ UNCHANGED <<votes, seqVotes, now>>

\* ---------------------------------------------------------------- get_proposal
get_proposal(t) ==
    /\ Dispatch(t)
    /\ \E p \in 1..MaxProposals :
        ResolveSelect(t, [Idle EXCEPT !.op = "get", !.pid = p])
    /\ UNCHANGED <<proposals, votes, seqVotes, now>>

\* ---------------------------------------------------------------- get_proposals
\* SELECT id FROM proposals, then the loop over the ids
get_proposals(t) ==
    /\ Dispatch(t)
    /\ LET ids == [i \in 1..Len(proposals) |-> i]
           r == [Idle EXCEPT !.op = "list"]
       IN IF ids = <<>>
          THEN Return(t, r, Ok200)
          ELSE Step(t, [r EXCEPT !.pid = Head(ids), !.ids = Tail(ids),
                                 !.pc = "gp_select"])
    /\ UNCHANGED <<proposals, votes, seqVotes, now>>

\* ---------------------------------------------------------------- submit_vote
\* VoteCreate: constr(min_length=1) voter_name, vote matching ^(yes|no|abstain)$
ValidVoteCreate(voter, choice) == voter # "" /\ choice \in Choices

\* casts that have been admitted and may still take a vote id
PendingInserts ==
    Cardinality({t \in Threads : th[t].op = "cast" /\
                    th[t].pc \in {"gp_check", "gp_reselect", "cast_select", "cast_insert"}})

submit_vote(t) ==
    /\ Dispatch(t)
    /\ seqVotes + PendingInserts < MaxVoteId
    /\ \E p \in 1..MaxProposals, voter \in VoterInputs, choice \in ChoiceInputs :
        LET r == [Idle EXCEPT !.op = "cast", !.pid = p] IN
        IF ~ValidVoteCreate(voter, choice)
        THEN Return(t, r, ValidationError)
        ELSE ResolveSelect(t, r)
    /\ UNCHANGED <<proposals, votes, seqVotes, now>>

\* the status test, then SELECT id FROM votes WHERE proposal_id=? AND voter_name=?
\* (payload.voter_name, validated on entry, is bound here, where it is first read)
CastSelect(t) ==
    LET r == th[t] IN
    /\ r.pc = "cast_select"
    /\ IF r.row # "active"
       THEN Return(t, r, NotActiveVote)
       ELSE \E voter \in Voters :
            IF \E v \in votes : v.proposal_id = r.pid /\ v.voter_name = voter
            THEN Return(t, [r EXCEPT !.voter = voter], AlreadyVoted)
            ELSE Step(t, [r EXCEPT !.voter = voter, !.pc = "cast_insert"])
    /\ UNCHANGED <<proposals, votes, seqVotes, now>>

\* table votes without its UNIQUE constraint
UniqueViolation_None(vs, pid, voter) == FALSE

\* UNIQUE(proposal_id, voter_name) of table votes, tested by the INSERT
UniqueViolation(vs, pid, voter) ==
    \E v \in vs : v.proposal_id = pid /\ v.voter_name = voter

\* a plain INTEGER PRIMARY KEY: one more than the largest id stored
NextVoteId_MaxRowid(vs, seq) ==
    IF vs = {} THEN 1 ELSE (CHOOSE v \in vs : \A w \in vs : w.id <= v.id).id + 1

\* id INTEGER PRIMARY KEY AUTOINCREMENT: one more than the largest id ever issued
NextVoteId(vs, seq) == seq + 1

\* voted_at = utcnow(); INSERT INTO votes ...; commit.  A violated UNIQUE
\* raises sqlite3.IntegrityError, which no handler catches
\* (payload.vote, validated on entry, is bound here, where it is first read)
CastInsert(t) ==
    LET r == th[t] IN
    /\ r.pc = "cast_insert"
    /\ IF UniqueViolation(votes, r.pid, r.voter)
       THEN /\ Return(t, r, ServerError)
            /\ UNCHANGED <<votes, seqVotes>>
       ELSE \E choice \in Choices :
            /\ votes' = votes \cup
                    {[id |-> NextVoteId(votes, seqVotes), proposal_id |-> r.pid,
                      voter_name |-> r.voter, vote |-> choice, voted_at |-> now]}
            /\ seqVotes' = seqVotes + 1
            /\ Step(t, [r EXCEPT !.vid = NextVoteId(votes, seqVotes), !.voter = "",
                                 !.pc = "cast_fetch"])
    /\ UNCHANGED <<proposals, now>>

\* SELECT * FROM votes WHERE id=?; the VoteOut is built from the row (a
\* missing row makes v["id"] raise TypeError)
CastFetch(t) ==
    LET r == th[t] IN
    /\ r.pc = "cast_fetch"
    /\ IF \E v \in votes : v.id = r.vid
       THEN LET v == CHOOSE w \in votes : w.id = r.vid
            IN Return(t, [r EXCEPT !.pid = v.proposal_id, !.voter = v.voter_name,
                                   !.choice = v.vote, !.voted_at = v.voted_at],
                      Created201)
       ELSE Return(t, r, ServerError)
    /\ UNCHANGED <<proposals, votes, seqVotes, now>>

\* ---------------------------------------------------------------- revoke_vote
\* SELECT * FROM votes WHERE id=?  (404 if no row)
revoke_vote(t) ==
    /\ Dispatch(t)
    /\ \E vid \in 1..MaxVoteId :
        LET r == [Idle EXCEPT !.op = "revoke", !.vid = vid] IN
        IF \E v \in votes : v.id = vid
        THEN Step(t, [r EXCEPT !.pid = (CHOOSE v \in votes : v.id = vid).proposal_id,
                               !.pc = "gp_select"])
        ELSE Return(t, r, NotFoundVote)
    /\ UNCHANGED <<proposals, votes, seqVotes, now>>

\* a DELETE without its WHERE clause
DeleteVote_All(vs, vid) == {}

\* DELETE FROM votes WHERE id=?
DeleteVote(vs, vid) == {v \in vs : v.id # vid}

\* the status test, then DELETE FROM votes WHERE id=?; commit
RevokeDelete(t) ==
    LET r == th[t] IN
    /\ r.pc = "revoke_delete"
    /\ IF r.row # "active"
       THEN /\ Return(t, r, NotActiveRevoke)
            /\ UNCHANGED votes
       ELSE /\ votes' = DeleteVote(votes, r.vid)
            /\ Return(t, r, NoContent204)
    /\ UNCHANGED <<proposals, seqVotes, now>>

\* ---------------------------------------------------------------- close_proposal
\* a gate that lets every token through
Authorized_Any(tok) == TRUE

\* the admin gate
Authorized(tok) == tok = ADMIN_TOKEN

\* the token test, then SELECT * FROM proposals WHERE id=?
close_proposal(t) ==
    /\ Dispatch(t)
    /\ \E p \in 1..MaxProposals, tok \in Tokens :
        LET r == [Idle EXCEPT !.op = "close", !.pid = p, !.tok = tok] IN
        IF ~Authorized(tok)
        THEN Return(t, r, Forbidden)
        ELSE IF p \notin DOMAIN proposals
        THEN Return(t, r, NotFoundProposal)
        ELSE Step(t, [r EXCEPT !.pc = "close_update"])
    /\ UNCHANGED <<proposals, votes, seqVotes, now>>

\* UPDATE proposals SET status='closed' WHERE id=?; commit
CloseUpdate(t) ==
    LET r == th[t] IN
    /\ r.pc = "close_update"
    /\ proposals' = [proposals EXCEPT ![r.pid].status = "closed"]
    /\ Step(t, [r EXCEPT !.pc = "gp_select"])
    /\ UNCHANGED <<votes, seqVotes, now>>

\* ---------------------------------------------------------------- list_votes
RECURSIVE ById(_)
ById(vs) ==
    IF vs = {} THEN <<>>
    ELSE LET v == CHOOSE x \in vs : \A y \in vs : x.id <= y.id
         IN <<v>> \o ById(vs \ {v})

\* SELECT * FROM votes
list_votes(t) ==
    /\ Dispatch(t)
    /\ Return(t, [Idle EXCEPT !.op = "list_votes", !.results = ById(votes)], Ok200)
    /\ UNCHANGED <<proposals, votes, seqVotes, now>>

\* ---------------------------------------------------------------- next
Next ==
    \/ Tick
    \/ \E t \in Threads : create_proposal(t)
    \/ \E t \in Threads : get_proposal(t)
    \/ \E t \in Threads : get_proposals(t)
    \/ \E t \in Threads : submit_vote(t)
    \/ \E t \in Threads : revoke_vote(t)
    \/ \E t \in Threads : close_proposal(t)
    \/ \E t \in Threads : list_votes(t)
    \/ \E t \in Threads : GpSelect(t)
    \/ \E t \in Threads : GpCheck(t)
    \/ \E t \in Threads : GpReselect(t)
    \/ \E t \in Threads : Tally(t)
    \/ \E t \in Threads : CastSelect(t)
    \/ \E t \in Threads : CastInsert(t)
    \/ \E t \in Threads : CastFetch(t)
    \/ \E t \in Threads : RevokeDelete(t)
    \/ \E t \in Threads : CloseUpdate(t)

Spec == Init /\ [][Next]_vars

\* ---------------------------------------------------------------- properties
\* a proposal's status after any pending time-triggered expiry
EffectiveStatus(p) ==
    IF proposals[p].status = "active" /\ now > proposals[p].deadline
    THEN "expired"
    ELSE proposals[p].status

VotesOf(vs, p) == {v \in vs : v.proposal_id = p}

Count(vs, p, k) == Cardinality({v \in vs : v.proposal_id = p /\ v.vote = k})

\* the response just sent is a ProposalOut (or a list ending with one)
SentProposalOut ==
    /\ reply.pc = "done"
    /\ reply.op \in {"create", "get", "close", "list"}
    /\ reply.res.code \in {200, 201}
    /\ reply.pid # 0

\* C1: a proposal's stored status changes only from active (to expired or to
\* closed); closed and expired are terminal.
C1_StatusMonotone ==
    [][\A p \in DOMAIN proposals :
          proposals'[p].status # proposals[p].status
              => proposals[p].status = "active"]_vars

\* C2: the ledger holds at most one vote per (proposal id, voter name), under
\* every interleaving of concurrent casts.
C2_OneVotePerVoter ==
    \A v, w \in votes :
        (v.proposal_id = w.proposal_id /\ v.voter_name = w.voter_name) => v = w

\* a cast lost the race for its (proposal, voter) pair: the INSERT was refused
C2_Witness ==
    /\ reply.pc = "done" /\ reply.op = "cast" /\ reply.res = ServerError
    /\ reply.voter # ""
    /\ \E v \in votes : v.proposal_id = reply.pid /\ v.voter_name = reply.voter

\* C3: the tally a response carries equals, per choice, the number of votes
\* stored for that proposal at the moment the tally is taken (0 for a choice
\* without votes); a revoked vote is not counted, a stored one is not missed.
C3_TallyMatchesLedger ==
    SentProposalOut =>
        reply.tal = <<Count(votes, reply.pid, "yes"), Count(votes, reply.pid, "no"),
                      Count(votes, reply.pid, "abstain")>>

\* a tally taken after a cast, a revoke and another cast
C3_Witness ==
    /\ SentProposalOut /\ reply.op = "get"
    /\ seqVotes = 2 /\ Cardinality(votes) = 1
    /\ reply.tal # <<0, 0, 0>>

\* C4: once a proposal is closed or expired, its set of votes never changes
\* again (every cast and revoke on it is refused), also when the cast or revoke
\* runs concurrently with the close or the expiry.  Stated for a proposal
\* already stored as closed or expired, whose effective status is then closed
\* or expired whatever the clock says.
C4_NoVoteChangeAfterEnd ==
    [][\A p \in DOMAIN proposals :
          proposals[p].status # "active" => VotesOf(votes', p) = VotesOf(votes, p)]_vars

\* C5: an authorized close of a proposal whose effective status is not active
\* (closed, expired, or active past its deadline) does not set the status to
\* closed: the stored status stays what it was.
C5_CloseOnlyWhenActive ==
    [][\A t \in Threads :
          (th[t].pc = "close_update" /\ th'[t].pc # "close_update"
              /\ EffectiveStatus(th[t].pid) # "active")
          => proposals'[th[t].pid].status = proposals[th[t].pid].status]_vars

\* C6: a cast whose (proposal, voter) pair already has a stored vote when its
\* insert runs (put there by a concurrent cast after the existence check) fails
\* with Conflict and leaves the ledger unchanged.
C6_DuplicateIsConflict ==
    [][\A t \in Threads :
          (th[t].pc = "cast_insert" /\ th'[t].pc # "cast_insert"
              /\ \E v \in votes : v.proposal_id = th[t].pid /\ v.voter_name = th[t].voter)
          => (reply'.res = AlreadyVoted /\ votes' = votes)]_vars

\* C7: the active -> expired write happens exactly once: once a proposal is
\* stored as expired, no resolution writes expired again and the stored status
\* stays expired, so every later resolution returns expired.
C7_ExpiredOnceAndStays ==
    [][\A p \in DOMAIN proposals :
          proposals[p].status = "expired"
          => /\ proposals'[p].status = "expired"
             /\ ~\E t \in Threads : /\ th[t].pc = "gp_check" /\ th[t].pid = p
                                    /\ th'[t].pc = "gp_reselect"]_vars

\* C8: every stored vote has voted-at <= the deadline of its proposal.
C8_NoVoteAfterDeadline ==
    \A v \in votes :
        v.proposal_id \in DOMAIN proposals
            => v.voted_at <= proposals[v.proposal_id].deadline

\* C9: no response reports status active for a proposal whose deadline is
\* earlier than the clock value the operation read when it resolved it.
C9_ReportedStatusEffective ==
    /\ (SentProposalOut /\ reply.op # "list")
           => ~(reply.row = "active" /\ proposals[reply.pid].deadline < reply.rnow)
    /\ (SentProposalOut /\ reply.op = "list")
           => \A i \in DOMAIN reply.results :
                 ~(reply.results[i].status = "active"
                   /\ proposals[reply.results[i].id].deadline < reply.results[i].rnow)

\* a proposal read past its deadline is reported expired
C9_Witness ==
    /\ SentProposalOut /\ reply.op = "get"
    /\ proposals[reply.pid].deadline < reply.rnow
    /\ reply.row = "expired"

\* C10: every stored proposal has deadline >= created-at, whatever days_open
\* the create requests carry.
C10_DeadlineNotBeforeCreation ==
    \A p \in DOMAIN proposals : proposals[p].deadline >= proposals[p].created_at

\* C11: a successful create returns the new proposal with status active and
\* tally (0, 0, 0).  Stated for the proposals whose deadline is not before
\* their creation time.
C11_CreateReturnsActive ==
    (/\ reply.pc = "done" /\ reply.op = "create" /\ reply.res = Created201
     /\ proposals[reply.pid].deadline >= proposals[reply.pid].created_at)
        => (reply.row = "active" /\ reply.tal = <<0, 0, 0>>)

\* C12: a close whose credential is missing or wrong is answered Forbidden,
\* whether or not the proposal exists, and the step changes neither a proposal
\* (no lazy expiry either) nor a vote nor the id sequence.
C12_ForbiddenChangesNothing ==
    [][(reply'.pc = "done" /\ reply'.op = "close" /\ reply'.tok # ADMIN_TOKEN)
          => /\ reply'.res = Forbidden
             /\ proposals' = proposals /\ votes' = votes
             /\ seqVotes' = seqVotes]_vars

\* an unauthorized close of a stored proposal that is past its deadline and
\* still stored as active
C12_Witness ==
    /\ reply.pc = "done" /\ reply.op = "close" /\ reply.res = Forbidden
    /\ reply.tok = "wrong"
    /\ reply.pid \in DOMAIN proposals
    /\ proposals[reply.pid].status = "active"
    /\ now > proposals[reply.pid].deadline

\* C13: for each vote id at most one revoke returns success: a revoke that is
\* answered 204 finds the vote in the ledger when it deletes, also when two
\* revokes of the same id run concurrently.
C13_OneRevokeSucceeds ==
    [][(reply'.pc = "done" /\ reply'.op = "revoke" /\ reply'.res = NoContent204)
          => \E v \in votes : v.id = reply'.vid]_vars

C15_ErrorsDistinguishable ==
    /\ Cardinality({AlreadyVoted, NotActiveVote, NotActiveRevoke,
                    NotFoundProposal, NotFoundVote, Forbidden}) = 6
    /\ reply.pc = "done" =>
        /\ reply.res = AlreadyVoted
             => /\ reply.op = "cast" /\ reply.row = "active"
                /\ \E v \in votes : /\ v.proposal_id = reply.pid
                                    /\ v.voter_name = reply.voter
        /\ reply.res = NotActiveVote
             => (reply.op = "cast" /\ reply.row \in {"closed", "expired"})
        /\ reply.res = NotActiveRevoke
             => (reply.op = "revoke" /\ reply.row \in {"closed", "expired"})
        /\ reply.res = NotFoundProposal
             => (reply.op \in {"get", "cast", "close"}
                 /\ reply.pid \notin DOMAIN proposals)
        /\ reply.res = NotFoundVote
             => (reply.op = "revoke" /\ ~\E v \in votes : v.id = reply.vid)
        /\ reply.res = Forbidden
             => (reply.op = "close" /\ reply.tok # ADMIN_TOKEN)

\* a cast refused because the voter has a stored vote on the active proposal
C15_Witness ==
    /\ reply.pc = "done" /\ reply.op = "cast" /\ reply.res = AlreadyVoted
    /\ proposals[reply.pid].status = "active"

\* a proposal created with days_open = 0
ZeroDuration(p) == proposals[p].deadline = proposals[p].created_at

\* C16, as stated: a cast on a proposal of zero duration that resolved it at
\* any clock value >= its creation time is refused: it reaches the status test
\* with a status other than active and goes no further.
C16_ZeroDurationCastRefused_AnyClock ==
    \A t \in Threads :
        (/\ th[t].op = "cast"
         /\ th[t].pc \in {"cast_select", "cast_insert", "cast_fetch"}
         /\ ZeroDuration(th[t].pid)
         /\ th[t].rnow >= proposals[th[t].pid].created_at)
        => (th[t].pc = "cast_select" /\ th[t].row # "active")

\* C16, amended: a cast on a proposal of zero duration that resolved it at a
\* clock value strictly greater than its creation time reaches the status test
\* with a status other than active, goes no further (it never inserts), and is
\* answered with the not-active error.
C16_ZeroDurationCastRefused ==
    /\ \A t \in Threads :
        (/\ th[t].op = "cast"
         /\ th[t].pc \in {"cast_select", "cast_insert", "cast_fetch"}
         /\ ZeroDuration(th[t].pid)
         /\ th[t].rnow > proposals[th[t].pid].created_at)
        => (th[t].pc = "cast_select" /\ th[t].row # "active")
    /\ (/\ reply.pc = "done" /\ reply.op = "cast"
        /\ reply.pid \in DOMAIN proposals
        /\ ZeroDuration(reply.pid)
        /\ reply.rnow > proposals[reply.pid].created_at)
        => reply.res = NotActiveVote

\* the first cast on a proposal of zero duration, resolved after the creation
\* time, is refused and the ledger is empty
C16_Witness ==
    /\ reply.pc = "done" /\ reply.op = "cast" /\ reply.res = NotActiveVote
    /\ ZeroDuration(reply.pid)
    /\ reply.rnow > proposals[reply.pid].created_at
    /\ seqVotes = 0 /\ votes = {}

\* C17: a proposal stored as closed is never overwritten to expired by the
\* lazy expiry write of a concurrent resolution.
C17_ClosedNotOverwritten ==
    [][\A p \in DOMAIN proposals :
          proposals[p].status = "closed" => proposals'[p].status # "expired"]_vars

\* C18: a step of get proposal or list proposals changes no vote, and the only
\* change it makes to a proposal is active -> expired on a proposal whose
\* deadline has passed.
C18_ReadsOnlyExpire ==
    [][\A t \in Threads :
          (th[t].op \in {"get", "list"} /\ th'[t] # th[t])
          => /\ votes' = votes /\ seqVotes' = seqVotes
             /\ \A p \in DOMAIN proposals :
                   proposals'[p] # proposals[p]
                   => /\ proposals[p].status = "active"
                      /\ proposals'[p] = [proposals[p] EXCEPT !.status = "expired"]
                      /\ now > proposals[p].deadline]_vars

\* C19: every vote inserted gets an id strictly greater than every id issued
\* before (seqVotes, the largest id ever issued, which no revoke lowers), so no
\* id is issued twice; the id is the one the cast returns.
C19_VoteIdsNeverReused ==
    [][/\ seqVotes' >= seqVotes
       /\ \A v \in votes : v.id <= seqVotes
       /\ \A n \in votes' \ votes :
             /\ n.id > seqVotes /\ n.id <= seqVotes'
             /\ \E t \in Threads : th'[t].pc = "cast_fetch" /\ th'[t].vid = n.id
       /\ (reply'.pc = "done" /\ reply'.op = "cast" /\ reply'.res = Created201)
             => \E t \in Threads : th[t].pc = "cast_fetch" /\ th[t].vid = reply'.vid]_vars

\* a cast has just inserted the vote with id 2 while the vote with id 1 is no
\* longer stored (it was revoked)
C19_Witness ==
    /\ \E t \in Threads : th[t].pc = "cast_fetch" /\ th[t].vid = 2
    /\ \E v \in votes : v.id = 2
    /\ ~\E v \in votes : v.id = 1

\* C20: every stored vote belongs to a stored proposal and carries an allowed
\* choice; a cast that names a proposal id without a row is answered 404 (or
\* 422 when its body is invalid).
C20_NoOrphanVotes ==
    /\ \A v \in votes : v.proposal_id \in DOMAIN proposals /\ v.vote \in Choices
    /\ (reply.pc = "done" /\ reply.op = "cast" /\ reply.pid \notin DOMAIN proposals)
          => reply.res \in {NotFoundProposal, ValidationError}

\* a cast on a proposal id without a row is refused while the ledger holds a
\* vote of a stored proposal
C20_Witness ==
    /\ reply.pc = "done" /\ reply.op = "cast" /\ reply.res = NotFoundProposal
    /\ reply.pid \notin DOMAIN proposals
    /\ votes # {}

====
